---------------------------- MODULE Spec2Model ----------------------------
(***************************************************************************)
(* Model of the forex-pair CRUD service of src/web_template/src/main.rs:   *)
(* an in-memory HashMap<u64, ForexPair> behind one std::sync::Mutex,       *)
(* rewritten wholesale to database.json by every mutating handler.         *)
(*                                                                         *)
(* Texts (JSON numbers, strings, map keys) are sequences of one-character  *)
(* strings.  A price is the f64's shortest decimal, digits * 10^e.        *)
(***************************************************************************)
EXTENDS Integers, Sequences, FiniteSets, TLC

\* ------------------------------------------------------------------ bounds
\* Requests the server receives in one behaviour (over all starts of the
\* process).
MaxRequests == 3

\* Two connections are handled at a time (actix workers, one request each).
Procs == {1, 2}
\* The ids requests address: a one-digit and a two-digit one.
Ids == {0, 10}
\* The payloads a request may carry: a plain symbol priced 0.9, and a
\* symbol whose characters JSON must escape priced 1.0.  Both prices read
\* back from their text as they are; RoundedPayloads has one that does not.
Payloads ==
    { [pair |-> <<"E", "U">>, price |-> [neg |-> FALSE, digits |-> <<"9">>, e |-> -1]],
      [pair |-> <<"\"", "\\">>, price |-> [neg |-> FALSE, digits |-> <<"1">>, e |-> 0]] }

\* ------------------------------------------------------------- ForexPair
ForexPair == { [id |-> i, pair |-> v.pair, price |-> v.price] : i \in Ids, v \in Payloads }

\* ------------------------------------------------ serde_json conversions
DigitChars == <<"0", "1", "2", "3", "4", "5", "6", "7", "8", "9">>

\* the value of each digit character
DigitValues == [c \in {DigitChars[d] : d \in 1..10} |-> (CHOOSE d \in 1..10 : DigitChars[d] = c) - 1]

DigitValue(c) == IF c \in DOMAIN DigitValues THEN DigitValues[c] ELSE -1

\* itoa: the decimal digits of an unsigned integer
RECURSIVE to_string_u64(_)
to_string_u64(n) ==
    IF n < 10 THEN << DigitChars[n + 1] >>
    ELSE to_string_u64(n \div 10) \o << DigitChars[(n % 10) + 1] >>

\* the text is one or more decimal digits
IsDigits(s) == s # << >> /\ \A i \in 1..Len(s) : DigitValue(s[i]) >= 0

\* the number a text of digits denotes (leading zeros allowed)
RECURSIVE DigitsValue(_)
DigitsValue(s) ==
    IF s = << >> THEN 0
    ELSE 10 * DigitsValue(SubSeq(s, 1, Len(s) - 1)) + DigitValue(s[Len(s)])

\* parse_integer for a u64: digits only, and a 0 is followed by no digit;
\* -1 when the text is not such a number (texts beyond the integers TLC
\* evaluates are outside the model)
from_str_u64(s) ==
    IF ~IsDigits(s) THEN -1
    ELSE IF Len(s) > 1 /\ s[1] = "0" THEN -1
    ELSE DigitsValue(s)

\* a text of n zeros
RECURSIVE Zeros(_)
Zeros(n) == IF n <= 0 THEN << >> ELSE << "0" >> \o Zeros(n - 1)

\* Natural numbers beyond the integers TLC evaluates: the sequence of the
\* base-1000 digits, lowest first, without a leading zero digit (zero is
\* the empty sequence).  They carry the u64 significand, the powers of ten
\* and the f64 arithmetic of the number parser exactly.
Base == 1000

Limb(a, i) == IF i <= Len(a) THEN a[i] ELSE 0

\* The element of a set of one element.  In Value({ F(x) : x \in {e} }) the
\* value of e is computed once, before F is.
Value(S) == CHOOSE v \in S : TRUE

\* a without its leading zero digits
BigNorm(a) ==
    LET n    == Len(a)
        drop == CHOOSE t \in 0..n :
                    /\ t = n \/ a[n - t] # 0
                    /\ \A u \in 0..(t - 1) : a[n - u] = 0
    IN  SubSeq(a, 1, n - drop)

\* a number below Base^3
Small(m) == BigNorm(<< m % Base, (m \div Base) % Base, m \div (Base * Base) >>)

\* a + b: the carry into a digit comes from the nearest lower digit whose
\* sum is not Base - 1
BigAdd(a, b) ==
    IF a = << >> THEN b ELSE IF b = << >> THEN a ELSE
    LET n == IF Len(a) < Len(b) THEN Len(b) ELSE Len(a)
        x(i) == Limb(a, i) + Limb(b, i)
        carry(i) ==
            LET t == CHOOSE t \in 1..i :
                         /\ t = i \/ x(i - t) # Base - 1
                         /\ \A u \in 1..(t - 1) : x(i - u) = Base - 1
            IN  IF t < i /\ x(i - t) >= Base THEN 1 ELSE 0
    IN  BigNorm([i \in 1..(n + 1) |-> (x(i) + carry(i)) % Base])

\* a - b, for a >= b: the borrow from a digit goes to the nearest lower
\* digit whose difference is not 0
BigSub(a, b) ==
    IF b = << >> THEN a ELSE
    LET y(i) == a[i] - Limb(b, i)
        borrow(i) ==
            LET t == CHOOSE t \in 1..i :
                         /\ t = i \/ y(i - t) # 0
                         /\ \A u \in 1..(t - 1) : y(i - u) = 0
            IN  IF t < i /\ y(i - t) < 0 THEN 1 ELSE 0
    IN  BigNorm([i \in 1..Len(a) |-> (y(i) - borrow(i) + Base) % Base])

\* -1, 0, 1 as a is less than, equal to, greater than b
BigCmp(a, b) ==
    IF Len(a) # Len(b) THEN (IF Len(a) < Len(b) THEN -1 ELSE 1)
    ELSE IF \A i \in 1..Len(a) : a[i] = b[i] THEN 0
    ELSE LET n == Len(a)
             t == CHOOSE t \in 0..(n - 1) :
                      /\ a[n - t] # b[n - t]
                      /\ \A u \in 0..(t - 1) : a[n - u] = b[n - u]
         IN  IF a[n - t] < b[n - t] THEN -1 ELSE 1

\* a * b: the sums of the digit products, then their carries
RECURSIVE Conv(_, _, _, _, _)
Conv(a, b, k, i, last) ==
    IF i > last THEN 0
    ELSE IF i = last THEN a[i] * b[k + 1 - i]
    ELSE Conv(a, b, k, i, (i + last) \div 2)
         + Conv(a, b, k, (i + last) \div 2 + 1, last)

BigMul(a, b) ==
    IF a = << >> \/ b = << >> THEN << >>
    ELSE LET na == Len(a)
             nb == Len(b)
             n  == na + nb - 1
             c  == [k \in 1..n |->
                       Conv(a, b, k, IF k + 1 - nb > 1 THEN k + 1 - nb ELSE 1,
                            IF k < na THEN k ELSE na)]
             lo  == [k \in 1..n |-> c[k] % Base]
             mid == [k \in 1..(n + 1) |->
                       IF k = 1 THEN 0 ELSE (c[k - 1] \div Base) % Base]
             hi  == [k \in 1..(n + 2) |->
                       IF k <= 2 THEN 0 ELSE c[k - 2] \div (Base * Base)]
         IN  BigAdd(BigAdd(lo, mid), hi)

\* a * m, for m below Base
BigMulSmall(a, m) ==
    IF m = 0 \/ a = << >> THEN << >>
    ELSE BigAdd([i \in 1..Len(a) |-> (a[i] * m) % Base],
                [i \in 1..(Len(a) + 1) |->
                    IF i = 1 THEN 0 ELSE (a[i - 1] * m) \div Base])

\* a \div 2
BigHalf(a) ==
    BigNorm([i \in 1..Len(a) |->
                (a[i] + (IF i < Len(a) THEN Base * (a[i + 1] % 2) ELSE 0)) \div 2])

RECURSIVE SmallPow(_, _)
SmallPow(b, n) == IF n = 0 THEN 1 ELSE b * SmallPow(b, n - 1)

BigSquare(a) == BigMul(a, a)

\* 2^n
RECURSIVE BigPow2(_)
BigPow2(n) ==
    IF n < 20 THEN Small(SmallPow(2, n))
    ELSE BigMulSmall(BigSquare(BigPow2(n \div 2)), 1 + (n % 2))

\* 10^n
BigPow10(n) == [i \in 1..(n \div 3) |-> 0] \o << SmallPow(10, n % 3) >>

\* the number of decimal digits of a (0 for zero)
DecLen(a) ==
    IF a = << >> THEN 0
    ELSE 3 * (Len(a) - 1)
         + (LET top == a[Len(a)]
            IN  IF top >= 100 THEN 3 ELSE IF top >= 10 THEN 2 ELSE 1)

\* the number of binary digits of a (0 for zero): the least k with a < 2^k
RECURSIVE BitLenFrom(_, _, _)
BitLenFrom(a, k, p) ==
    IF BigCmp(p, a) > 0 THEN k ELSE BitLenFrom(a, k + 1, BigMulSmall(p, 2))

BigBitLen(a) ==
    IF a = << >> THEN 0
    ELSE LET k0 == ((DecLen(a) - 1) * 33219) \div 10000
         IN  BitLenFrom(a, k0, BigPow2(k0))

\* An f64 in the number parser: the finite value man * 2^exp with
\* man < 2^53 (normal when man >= 2^52, subnormal at exp = -1074), or
\* infinity.
Two52 == << 496, 370, 627, 599, 503, 4 >>
Two53 == << 992, 740, 254, 199, 7, 9 >>
MinExp == -1074
MaxExp == 971
F64Inf == [man |-> << >>, exp |-> MaxExp + 1]
F64Zero == [man |-> << >>, exp |-> 0]

\* the decimal digit d of r \div s, for r < 10 * s
DigitOf(r, s) ==
    CHOOSE d \in 0..9 :
        LET m == BigMulSmall(s, d)
        IN  BigCmp(m, r) <= 0 /\ BigCmp(BigSub(r, m), s) < 0

\* the number that decimal digits, highest first and at most 18, denote
FromDigits(q) ==
    LET n == Len(q)
        digit(r) == IF r <= n THEN q[n + 1 - r] ELSE 0
    IN  BigNorm([j \in 1..6 |->
                    digit(3 * j - 2) + 10 * digit(3 * j - 1) + 100 * digit(3 * j)])

\* the digit d of r \div s and what is left of r, for r < 10 * s
QuoRem(r, s) ==
    LET d == DigitOf(r, s)
    IN  [d |-> d, r |-> BigSub(r, BigMulSmall(s, d))]

\* the decimal digits hi down to lo of a \div b (digit 0 the lowest) and
\* what is left of a, for a < b * 10^(hi + 1): long division, the upper
\* half of the digits before the lower half
RECURSIVE DivDigits(_, _, _, _)
DivDigits(a, b, hi, lo) ==
    IF hi = lo
    THEN LET one == QuoRem(a, BigMul(b, BigPow10(lo)))
         IN  [q |-> << one.d >>, r |-> one.r]
    ELSE LET mid == (hi + lo) \div 2
             top == DivDigits(a, b, hi, mid + 1)
             low == DivDigits(top.r, b, mid, lo)
         IN  [q |-> top.q \o low.q, r |-> low.r]

\* quotient and remainder of a by b, for a < b * 10^17
Divided(qr) == [q |-> FromDigits(qr.q), r |-> qr.r]

Divide(a, b) ==
    IF BigCmp(a, b) < 0 THEN [q |-> << >>, r |-> a]
    ELSE Divided(DivDigits(a, b, 16, 0))

\* the f64 of mantissa q <= 2^53 and exponent e
Pack(q, e) ==
    LET up == q = Two53
    IN  IF q = << >> THEN F64Zero
        ELSE IF (IF up THEN e + 1 ELSE e) > MaxExp THEN F64Inf
        ELSE [man |-> IF up THEN Two52 ELSE q, exp |-> IF up THEN e + 1 ELSE e]

\* (q + r / b) * 2^e with the fraction r / b rounded to the nearest, ties
\* to the even mantissa
RoundEven(q, r, b, e) ==
    LET half == BigCmp(BigMulSmall(r, 2), b)
        odd  == q # << >> /\ q[1] % 2 = 1
    IN  Pack(IF half > 0 \/ (half = 0 /\ odd) THEN BigAdd(q, << 1 >>) ELSE q, e)

\* a quotient qr.q below 2^54 with remainder qr.r of a division by b, as
\* one below 2^53
Narrow(qr, b, e) ==
    IF BigCmp(qr.q, Two53) >= 0
    THEN RoundEven(BigHalf(qr.q),
                   IF qr.q[1] % 2 = 1 THEN BigAdd(qr.r, b) ELSE qr.r,
                   BigMulSmall(b, 2), e + 1)
    ELSE RoundEven(qr.q, qr.r, b, e)

\* a / b < 2^54 < 10^17 divided out and rounded, for the exponent e
Quotient(a, b, e) == Narrow(Divide(a, b), b, e)

\* n / d = (a / b) * 2^e
AtExponent(n, d, e) ==
    Quotient(IF e < 0 THEN BigMul(n, BigPow2(-e)) ELSE n,
             IF e > 0 THEN BigMul(d, BigPow2(e)) ELSE d, e)

\* n / d rounded to the nearest f64, ties to the even mantissa (d > 0):
\* what one f64 multiplication, division or integer conversion returns.
\* With l the difference of the bit lengths, 2^(l - 1) < n / d < 2^(l + 1).
Exponent(l) == IF l - 53 < MinExp THEN MinExp ELSE l - 53

RoundToF64(n, d) ==
    IF n = << >> THEN F64Zero
    ELSE Value({ AtExponent(n, d, e) :
                     e \in { Exponent(BigBitLen(n) - BigBitLen(d)) } })

\* n / d * 2^e as an f64
Ratio(n, d, e) ==
    RoundToF64(IF e > 0 THEN BigMul(n, BigPow2(e)) ELSE n,
               IF e < 0 THEN BigMul(d, BigPow2(-e)) ELSE d)

\* f * g when up, f / g otherwise, of finite f64s, g > 0
F64Scale(f, g, up) ==
    IF f.man = << >> THEN F64Zero
    ELSE Ratio(IF up THEN BigMul(f.man, g.man) ELSE f.man,
               IF up THEN << 1 >> ELSE g.man,
               IF up THEN f.exp + g.exp ELSE f.exp - g.exp)

\* POW10[a], the f64 nearest to 10^a (a in 0..308), and significand as f64
POW10(a) == RoundToF64(BigPow10(a), << 1 >>)

F64FromU64(sig) == RoundToF64(sig, << 1 >>)

\* Deserializer::f64_from_parts without its sign: the significand as an
\* f64, times or divided by one power of ten of the table; an exponent
\* below -308 divides by 1e308 first and goes round again, one above 308 is
\* out of range, and so is a product that is infinite
RECURSIVE f64_from_parts(_, _)
Again(f, exponent) ==
    IF exponent < -308 THEN f64_from_parts(f, exponent + 308) ELSE f

f64_from_parts(f, exponent) ==
    LET beyond == exponent > 308 \/ exponent < -308
        a == IF beyond THEN 308 ELSE IF exponent < 0 THEN -exponent ELSE exponent
    IN  IF beyond /\ f.man = << >> THEN f
        ELSE IF beyond /\ exponent >= 0 THEN F64Inf
        ELSE Value({ Again(F64Scale(f, pow, exponent >= 0), exponent) :
                         pow \in { POW10(a) } })

\* The shortest decimal that reads back as the f64 man * 2^exp, the closest
\* to it among the shortest: the digits the float formatter writes.
\* Digit generation for the value r / s < 1, with mp / s and mm / s the
\* distances to the neighbouring f64s halved; ok when the bounds themselves
\* round to the f64 (even mantissa).  D are the first 17 digits of r / s;
\* Left is what the first n of them leave of r * 10^n.
Left(r, s, D, n) ==
    BigSub(BigMul(r, BigPow10(n)), BigMul(s, FromDigits(SubSeq(D, 1, n))))

\* the first n digits are within the lower bound
Low(left, mm, n, ok) ==
    LET lo == BigCmp(left, BigMul(mm, BigPow10(n)))
    IN  IF ok THEN lo <= 0 ELSE lo < 0

\* the first n digits, the last one raised, are within the upper bound
High(left, s, mp, n, ok) ==
    LET hi == BigCmp(BigAdd(left, BigMul(mp, BigPow10(n))), s)
    IN  IF ok THEN hi >= 0 ELSE hi > 0

Stops(left, s, mp, mm, n, ok) == Low(left, mm, n, ok) \/ High(left, s, mp, n, ok)

\* the digits as they are are the closer (half is -1, 0, 1 as what is left
\* is less than, equal to, more than half a unit of the last digit), or as
\* close and their last digit is even
Closer(half, last) == half < 0 \/ (half = 0 /\ last % 2 = 0)

\* n digits, the last one raised unless the digits as they are lie within
\* the lower bound and are the closer
Ending(left, s, mp, mm, ok, D, n) ==
    LET up == ~(/\ Low(left, mm, n, ok)
                /\ (\/ ~High(left, s, mp, n, ok)
                    \/ Closer(BigCmp(BigMulSmall(left, 2), s), D[n])))
    IN  [i \in 1..n |-> DigitChars[D[i] + (IF i = n /\ up THEN 2 ELSE 1)]]

\* generation ends with the first digit at which a bound is reached
Shortened(r, s, mp, mm, ok, D, n) == Ending(Left(r, s, D, n), s, mp, mm, ok, D, n)

FirstStop(r, s, mp, mm, ok, D) ==
    Shortened(r, s, mp, mm, ok, D,
              CHOOSE n \in 1..17 :
                  /\ Stops(Left(r, s, D, n), s, mp, mm, n, ok)
                  /\ \A m \in 1..(n - 1) : ~Stops(Left(r, s, D, m), s, mp, mm, m, ok))

Generate(r, s, mp, mm, ok) ==
    Value({ FirstStop(r, s, mp, mm, ok, D) :
                D \in { DivDigits(BigMul(r, BigPow10(17)), s, 16, 0).q } })

\* digits without trailing zeros, the exponent raised for each one dropped
RECURSIVE Shortest(_, _, _)
Shortest(neg, digits, e) ==
    IF digits = << >> \/ digits = << "0" >>
    THEN [neg |-> neg, digits |-> << "0" >>, e |-> 0]
    ELSE IF digits[Len(digits)] = "0"
    THEN Shortest(neg, SubSeq(digits, 1, Len(digits) - 1), e + 1)
    ELSE [neg |-> neg, digits |-> digits, e |-> e]

\* the digits generated, with the exponent of the last one
Digits(neg, digits, k) == Shortest(neg, digits, k - Len(digits))

\* the estimate k of the decimal exponent is one too low when the upper
\* bound reaches s
Fixup(neg, ok, r, s, mp, mm, k) ==
    LET high == BigCmp(BigAdd(r, mp), s)
        fix  == IF ok THEN high >= 0 ELSE high > 0
    IN  Digits(neg, Generate(r, IF fix THEN BigMulSmall(s, 10) ELSE s, mp, mm, ok),
               IF fix THEN k + 1 ELSE k)

\* r / s brought between 1/10 and 10 by the power of ten of the estimate k
ScaleTo(neg, ok, r, s, mp, mm, k) ==
    LET up == IF k < 0 THEN BigPow10(-k) ELSE << 1 >>
    IN  Fixup(neg, ok, BigMul(r, up),
              IF k > 0 THEN BigMul(s, BigPow10(k)) ELSE s,
              BigMul(mp, up), BigMul(mm, up), k)

Estimate(neg, ok, r, s, mp, mm) ==
    ScaleTo(neg, ok, r, s, mp, mm, DecLen(BigAdd(r, mp)) - DecLen(s))

\* be is 2^exp for an exponent that is not negative; at a power of two
\* (edge) the f64 below is half as far as the one above
Bounds(neg, f, edge, be) ==
    Value({ Estimate(neg, f.man[1] % 2 = 0, r, s,
                     IF edge THEN BigMulSmall(be, 2) ELSE be, be) :
                r \in { BigMulSmall(BigMul(f.man, be), IF edge THEN 4 ELSE 2) },
                s \in { IF f.exp >= 0 THEN (IF edge THEN << 4 >> ELSE << 2 >>)
                        ELSE BigPow2((IF edge THEN 2 ELSE 1) - f.exp) } })

\* an f64 as its shortest decimal: digits * 10^e, digits without leading or
\* trailing zeros (zero is the digit 0, e = 0, of either sign)
ShortestDecimal(neg, f) ==
    IF f.man = << >> THEN Shortest(neg, << "0" >>, 0)
    ELSE Value({ Bounds(neg, f, f.man = Two52 /\ f.exp > MinExp, be) :
                     be \in { IF f.exp >= 0 THEN BigPow2(f.exp) ELSE << 1 >> } })

\* what from_str_f64 gives for a text that is not a JSON number, or for a
\* number out of the range of f64
InvalidNumber == [neg |-> FALSE, digits |-> << >>, e |-> 0]

\* The float formatter, as serde_json writes a finite f64: plain decimal
\* notation with at least one fractional digit while the decimal point
\* falls within 16 digits or up to 5 zeros follow it, exponent notation
\* otherwise.  The sign of a positive exponent is written by the releases
\* of serde_json that format with zmij (1e+16) and left out by those that
\* format with ryu (1e16); the repository pins neither, the reader accepts
\* both, and the model writes it.
to_string_f64(p) ==
    LET digits == p.digits
        length == Len(digits)
        k      == p.e
        kk     == length + k
        exp    == kk - 1
        expText == (IF exp < 0 THEN << "-" >> ELSE << "+" >>)
                   \o to_string_u64(IF exp < 0 THEN -exp ELSE exp)
        abs ==
            IF digits = << "0" >> THEN << "0", ".", "0" >>
            ELSE IF 0 <= k /\ kk <= 16
                 THEN digits \o Zeros(k) \o << ".", "0" >>
            ELSE IF 0 < kk /\ kk <= 16
                 THEN SubSeq(digits, 1, kk) \o << "." >> \o SubSeq(digits, kk + 1, length)
            ELSE IF -5 < kk /\ kk <= 0
                 THEN << "0", "." >> \o Zeros(-kk) \o digits
            ELSE IF length = 1
                 THEN digits \o << "e" >> \o expText
            ELSE << digits[1], "." >> \o SubSeq(digits, 2, length) \o << "e" >> \o expText
    IN  (IF p.neg THEN << "-" >> ELSE << >>) \o abs

\* position of the first character of s that is in C, 0 when there is none
RECURSIVE FirstOf(_, _)
FirstOf(s, C) ==
    IF s = << >> THEN 0
    ELSE IF Head(s) \in C THEN 1
    ELSE LET rest == FirstOf(Tail(s), C)
         IN  IF rest = 0 THEN 0 ELSE rest + 1

\* position of the decimal point, 0 when there is none
PointAt(s) == FirstOf(s, {"."})

\* the integer part of a number: 0, or digits that do not start with 0
IntegerPart(s) == IsDigits(s) /\ (s[1] # "0" \/ Len(s) = 1)

\* u64::MAX
U64Max == << 615, 551, 709, 73, 744, 446, 18 >>

\* parse_integer and parse_long_integer: the digits of the integer part
\* enter the u64 significand until one would overflow it; that digit and
\* all after it are dropped, each raising the exponent by one
RECURSIVE IntegerDigits(_, _)
IntegerDigits(s, sig) ==
    IF s = << >> THEN [sig |-> sig, dropped |-> 0]
    ELSE LET next == BigAdd(BigMulSmall(sig, 10), Small(DigitValue(Head(s))))
         IN  IF BigCmp(next, U64Max) > 0
             THEN [sig |-> sig, dropped |-> Len(s)]
             ELSE IntegerDigits(Tail(s), next)

\* parse_decimal and parse_decimal_overflow: the digits of the fraction
\* enter the significand, each lowering the exponent by one, until one
\* would overflow it; that digit and all after it are ignored
RECURSIVE FractionDigits(_, _)
FractionDigits(s, sig) ==
    IF s = << >> THEN [sig |-> sig, taken |-> 0]
    ELSE LET next == BigAdd(BigMulSmall(sig, 10), Small(DigitValue(Head(s))))
         IN  IF BigCmp(next, U64Max) > 0
             THEN [sig |-> sig, taken |-> 0]
             ELSE LET rest == FractionDigits(Tail(s), next)
                  IN  [sig |-> rest.sig, taken |-> rest.taken + 1]

\* i32::MAX and i32::MIN
I32Max == 2147483647
I32Min == (-I32Max) - 1

\* i32::saturating_add and i32::saturating_sub of an exponent b >= 0
saturating_add(a, b) == IF a > 0 /\ b > I32Max - a THEN I32Max ELSE a + b

saturating_sub(a, b) == IF a < 0 /\ b > a - I32Min THEN I32Min ELSE a - b

\* parse_exponent: the digits of the exponent as an i32, -1 when they
\* overflow it, which overflow!(exp * 10 + digit, i32::MAX) tests
RECURSIVE StripZeros(_)
StripZeros(s) ==
    IF Len(s) > 1 /\ Head(s) = "0" THEN StripZeros(Tail(s)) ELSE s

RECURSIVE ExponentDigits(_, _)
ExponentDigits(exp, s) ==
    IF s = << >> THEN exp
    ELSE IF /\ exp >= I32Max \div 10
            /\ (exp > I32Max \div 10 \/ DigitValue(Head(s)) > I32Max % 10)
         THEN -1
         ELSE ExponentDigits(exp * 10 + DigitValue(Head(s)), Tail(s))

ExponentValue(s) == ExponentDigits(0, StripZeros(s))

\* parse_exponent: the exponent of the number, from the exponent the
\* digits gave and the exponent written
final_exp(starting_exp, positive_exp, exp) ==
    IF positive_exp THEN saturating_add(starting_exp, exp)
    ELSE saturating_sub(starting_exp, exp)

\* parse_exponent_overflow: out of range (infinity stands for it) when the
\* exponent is positive and the significand is not zero, zero otherwise
parse_exponent_overflow(zero_significand, positive_exp) ==
    IF ~zero_significand /\ positive_exp THEN F64Inf ELSE F64Zero

\* the f64 read, unless it is infinite
InRange(neg, f) == IF f = F64Inf THEN InvalidNumber ELSE ShortestDecimal(neg, f)

\* parse_number for an f64: [-] int [. digits] [(e|E) [+|-] digits], where
\* int is 0 or starts with a digit that is not 0; an integer is a valid
\* f64.  The value is f64_from_parts of the u64 significand and the
\* decimal exponent, which is rounded once for the significand and once for
\* the power of ten, so a text with an exponent beyond 22 in absolute value
\* can read as a neighbour of the f64 nearest to it (the float_roundtrip
\* feature of serde_json, which reads exactly, is off by default and
\* nothing in the repository asks for it); a number out of range is an
\* error, one too small is zero.  The exponent written is added to the
\* exponent the digits gave, saturating; one that overflows the i32 by
\* itself gives zero or an error whatever the digits gave.
from_str_f64(s) ==
    LET neg  == s # << >> /\ s[1] = "-"
        t    == IF neg THEN Tail(s) ELSE s
        ePos == FirstOf(t, {"e", "E"})
        mant == IF ePos = 0 THEN t ELSE SubSeq(t, 1, ePos - 1)
        expT == IF ePos = 0 THEN << >> ELSE SubSeq(t, ePos + 1, Len(t))
        expNeg == expT # << >> /\ expT[1] = "-"
        expDigits == IF expT # << >> /\ expT[1] \in {"+", "-"} THEN Tail(expT) ELSE expT
        dot  == PointAt(mant)
        int  == IF dot = 0 THEN mant ELSE SubSeq(mant, 1, dot - 1)
        frac == IF dot = 0 THEN << >> ELSE SubSeq(mant, dot + 1, Len(mant))
        ip   == IntegerDigits(int, << >>)
        fp   == FractionDigits(frac, ip.sig)
        ev   == IF ePos = 0 THEN 0 ELSE ExponentValue(expDigits)
    IN  IF \/ ~IntegerPart(int)
           \/ (dot # 0 /\ ~IsDigits(frac))
           \/ (ePos # 0 /\ ~IsDigits(expDigits))
        THEN InvalidNumber
        ELSE InRange(neg,
                     IF ev < 0
                     THEN parse_exponent_overflow(fp.sig = << >>, ~expNeg)
                     ELSE f64_from_parts(F64FromU64(fp.sig),
                                         final_exp(ip.dropped - fp.taken, ~expNeg, ev)))

\* A character is a one-character string; a character TLA+ cannot write
\* in a string is named by its code point, "U+0008".
\* the characters below U+0020, by code point
ControlChars ==
    << "U+0000", "U+0001", "U+0002", "U+0003", "U+0004", "U+0005", "U+0006", "U+0007",
       "U+0008", "\t", "\n", "U+000B", "\f", "\r", "U+000E", "U+000F",
       "U+0010", "U+0011", "U+0012", "U+0013", "U+0014", "U+0015", "U+0016", "U+0017",
       "U+0018", "U+0019", "U+001A", "U+001B", "U+001C", "U+001D", "U+001E", "U+001F" >>

\* the characters U+0020 to U+007E, by code point
AsciiChars ==
    << " ", "!", "\"", "#", "$", "%", "&", "'", "(", ")", "*", "+",
       ",", "-", ".", "/", "0", "1", "2", "3", "4", "5", "6", "7",
       "8", "9", ":", ";", "<", "=", ">", "?", "@", "A", "B", "C",
       "D", "E", "F", "G", "H", "I", "J", "K", "L", "M", "N", "O",
       "P", "Q", "R", "S", "T", "U", "V", "W", "X", "Y", "Z", "[",
       "\\", "]", "^", "_", "U+0060", "a", "b", "c", "d", "e", "f", "g",
       "h", "i", "j", "k", "l", "m", "n", "o", "p", "q", "r", "s",
       "t", "u", "v", "w", "x", "y", "z", "{", "|", "}", "~" >>

HexDigits == <<"0", "1", "2", "3", "4", "5", "6", "7", "8", "9", "a", "b", "c", "d", "e", "f">>

HexDigitsUpper == <<"0", "1", "2", "3", "4", "5", "6", "7", "8", "9", "A", "B", "C", "D", "E", "F">>

\* the value of each hexadecimal digit, of either case
HexValues ==
    [c \in {HexDigits[d] : d \in 1..16} \cup {HexDigitsUpper[d] : d \in 1..16} |->
        (CHOOSE d \in 1..16 : HexDigits[d] = c \/ HexDigitsUpper[d] = c) - 1]

HexValue(c) == IF c \in DOMAIN HexValues THEN HexValues[c] ELSE -1

\* the code of a control character, -1 for any other character
ControlCodes ==
    [c \in {ControlChars[i] : i \in 1..32} |-> (CHOOSE i \in 1..32 : ControlChars[i] = c) - 1]

ControlCode(c) == IF c \in DOMAIN ControlCodes THEN ControlCodes[c] ELSE -1

\* the name of a code point, in at least `width` hexadecimal digits
RECURSIVE HexName(_, _)
HexName(n, width) ==
    IF n < 16 /\ width <= 1 THEN HexDigitsUpper[n + 1]
    ELSE HexName(n \div 16, width - 1) \o HexDigitsUpper[(n % 16) + 1]

\* the character of a code point
CharOf(n) ==
    IF n < 32 THEN ControlChars[n + 1]
    ELSE IF n < 127 THEN AsciiChars[n - 31]
    ELSE "U+" \o HexName(n, 4)

\* format_escaped_str_contents with the ESCAPE table: quote and backslash
\* get a backslash, control characters are written \b \t \n \f \r or
\* \u00XX, every other character is written as it is
RECURSIVE format_escaped_str_contents(_)
format_escaped_str_contents(s) ==
    IF s = << >> THEN << >>
    ELSE LET c == Head(s)
             code == ControlCode(c)
         IN  (IF c \in {"\"", "\\"} THEN << "\\", c >>
              ELSE IF code = 8 THEN << "\\", "b" >>
              ELSE IF code = 9 THEN << "\\", "t" >>
              ELSE IF code = 10 THEN << "\\", "n" >>
              ELSE IF code = 12 THEN << "\\", "f" >>
              ELSE IF code = 13 THEN << "\\", "r" >>
              ELSE IF code >= 0
                   THEN << "\\", "u", "0", "0",
                           HexDigits[(code \div 16) + 1], HexDigits[(code % 16) + 1] >>
              ELSE << c >>)
             \o format_escaped_str_contents(Tail(s))

to_string_str(s) == << "\"" >> \o format_escaped_str_contents(s) \o << "\"" >>

\* the code point of the four hexadecimal digits of s from position i,
\* -1 when they are not four hexadecimal digits
decode_hex_escape(s, i) ==
    IF Len(s) < i + 3 \/ \E j \in i..(i + 3) : HexValue(s[j]) < 0 THEN -1
    ELSE 4096 * HexValue(s[i]) + 256 * HexValue(s[i + 1])
         + 16 * HexValue(s[i + 2]) + HexValue(s[i + 3])

\* parse_escape on a text that starts with a backslash: the character the
\* escape denotes and the length of the escape, 0 when it is invalid.
\* \uXXXX of a leading surrogate needs the \uXXXX of a trailing one.
parse_escape(s) ==
    LET invalid == [len |-> 0, char |-> ""]
        c == s[2]
        n == decode_hex_escape(s, 3)
        n2 == decode_hex_escape(s, 9)
    IN  IF Len(s) < 2 THEN invalid
        ELSE IF c \in {"\"", "\\", "/"} THEN [len |-> 2, char |-> c]
        ELSE IF c = "b" THEN [len |-> 2, char |-> CharOf(8)]
        ELSE IF c = "f" THEN [len |-> 2, char |-> CharOf(12)]
        ELSE IF c = "n" THEN [len |-> 2, char |-> CharOf(10)]
        ELSE IF c = "r" THEN [len |-> 2, char |-> CharOf(13)]
        ELSE IF c = "t" THEN [len |-> 2, char |-> CharOf(9)]
        ELSE IF c # "u" \/ n < 0 THEN invalid
        ELSE IF n >= 56320 /\ n <= 57343 THEN invalid
        ELSE IF n >= 55296 /\ n <= 56319
             THEN IF /\ Len(s) >= 12 /\ s[7] = "\\" /\ s[8] = "u"
                     /\ n2 >= 56320 /\ n2 <= 57343
                  THEN [len |-> 12,
                        char |-> CharOf(65536 + 1024 * (n - 55296) + (n2 - 56320))]
                  ELSE invalid
        ELSE [len |-> 6, char |-> CharOf(n)]

\* parse_str: the characters the text between the quotes denotes, up to
\* the first invalid escape
RECURSIVE parse_str_contents(_)
parse_str_contents(s) ==
    IF s = << >> THEN << >>
    ELSE IF Head(s) = "\\"
         THEN LET esc == parse_escape(s)
              IN  IF esc.len = 0 THEN << >>
                  ELSE << esc.char >> \o parse_str_contents(SubSeq(s, esc.len + 1, Len(s)))
         ELSE << Head(s) >> \o parse_str_contents(Tail(s))

\* the string a quoted JSON text denotes
from_str_str(s) == parse_str_contents(SubSeq(s, 2, Len(s) - 1))

\* the text between the quotes has no bare quote, no raw control
\* character and no invalid escape
RECURSIVE str_contents_ok(_)
str_contents_ok(s) ==
    IF s = << >> THEN TRUE
    ELSE IF Head(s) = "\\"
         THEN LET esc == parse_escape(s)
              IN  esc.len > 0 /\ str_contents_ok(SubSeq(s, esc.len + 1, Len(s)))
         ELSE Head(s) # "\"" /\ ControlCode(Head(s)) < 0 /\ str_contents_ok(Tail(s))

WellQuoted(s) ==
    /\ Len(s) >= 2
    /\ s[1] = "\""
    /\ s[Len(s)] = "\""
    /\ str_contents_ok(SubSeq(s, 2, Len(s) - 1))

\* #[derive(Serialize)] for ForexPair: a JSON object of three members
SerializeForexPair(r) ==
    [id    |-> to_string_u64(r.id),
     pair  |-> to_string_str(r.pair),
     price |-> to_string_f64(r.price)]

\* A price that does not read back from its text as it is: the f64
\* 9.143567579799399, which a body with the price 9.143567579799398 holds;
\* its text reads back as 9.1435675797994.
RoundedPayloads ==
    { [pair  |-> << "E", "U" >>,
       price |-> [neg |-> FALSE,
                  digits |-> << "9", "1", "4", "3", "5", "6", "7", "5", "7",
                                "9", "7", "9", "9", "3", "9", "9" >>,
                  e |-> -15]] }

RoundedForexPair ==
    { [id |-> i, pair |-> v.pair, price |-> v.price] : i \in Ids, v \in RoundedPayloads }

\* #[derive(Deserialize)] for ForexPair: the record read, and with it
\* whether the document is one of a record
DeserializeForexPair(j) ==
    [id    |-> from_str_u64(j.id),
     pair  |-> from_str_str(j.pair),
     price |-> from_str_f64(j.price)]

DeserializeResult(j, value) ==
    [ok    |-> /\ from_str_u64(j.id) >= 0
               /\ WellQuoted(j.pair)
               /\ value.price # InvalidNumber,
     value |-> value]

Deserialize(j) == DeserializeResult(j, DeserializeForexPair(j))

\* The records that requests carry, and their documents, computed once; any
\* other record is serialized where it occurs.
StoredForexPairs == ForexPair \cup RoundedForexPair

SerializedForexPairs == [r \in StoredForexPairs |-> SerializeForexPair(r)]

\* What the documents J deserialize to, and the documents of the records
\* read, and so on, added to the table T
RECURSIVE ReadAll(_, _)
Reread(T) ==
    ReadAll({ SerializeForexPair(T[j].value) : j \in { i \in DOMAIN T : T[i].ok } }, T)

ReadAll(J, T) ==
    IF J \subseteq DOMAIN T THEN T
    ELSE Reread([j \in J \cup DOMAIN T |->
                    IF j \in DOMAIN T THEN T[j] ELSE Deserialize(j)])

\* The documents of the records a store can hold, those that requests
\* carry and what they read back as from the file, deserialized once; any
\* other document is deserialized where it occurs.
DeserializedForexPairs ==
    ReadAll({ SerializedForexPairs[r] : r \in StoredForexPairs }, << >>)

ReadFrom(T, j) == IF j \in DOMAIN T THEN T[j] ELSE Deserialize(j)

Serialized(r) ==
    IF r \in DOMAIN SerializedForexPairs THEN SerializedForexPairs[r]
    ELSE SerializeForexPair(r)

Deserialized(j) == ReadFrom(DeserializedForexPairs, j).value

\* ------------------------------------------------------------- Database
\* The HashMap: a function from the keys present to the records.
Database_new == [k \in {} |-> k]

Keys(d) == DOMAIN d

\* HashMap::insert: add or replace the entry at key k
MapInsert(d, k, v) == [x \in (DOMAIN d) \cup {k} |-> IF x = k THEN v ELSE d[x]]

\* HashMap::remove
MapRemove(d, k) == [x \in (DOMAIN d) \ {k} |-> d[x]]

\* a variant that keeps an entry already present
insert_keeps_old(d, forex_pair) ==
    IF forex_pair.id \in DOMAIN d THEN d ELSE MapInsert(d, forex_pair.id, forex_pair)

\* a variant that stores every record under key 0
insert_under_zero(d, forex_pair) == MapInsert(d, 0, forex_pair)

insert(d, forex_pair) == MapInsert(d, forex_pair.id, forex_pair)

get(d, id) == IF id \in DOMAIN d THEN << d[id] >> ELSE << >>

\* a variant that removes nothing
delete_keeps(d, id) == d

\* a variant that empties the map when the id is absent
delete_absent_clears(d, id) == IF id \in DOMAIN d THEN MapRemove(d, id) ELSE Database_new

delete(d, id) == MapRemove(d, id)

\* a variant that replaces only the price of an entry already present
update_price_only(d, forex_pair) ==
    IF forex_pair.id \in DOMAIN d
    THEN [d EXCEPT ![forex_pair.id].price = forex_pair.price]
    ELSE MapInsert(d, forex_pair.id, forex_pair)

\* a variant that updates only an entry already present
update_existing_only(d, forex_pair) ==
    IF forex_pair.id \in DOMAIN d THEN MapInsert(d, forex_pair.id, forex_pair) ELSE d

update(d, forex_pair) == MapInsert(d, forex_pair.id, forex_pair)

\* all orders in which a HashMap may iterate over the set S of keys
RECURSIVE Orders(_)
Orders(S) ==
    IF S = {} THEN { << >> }
    ELSE UNION { { << k >> \o rest : rest \in Orders(S \ {k}) } : k \in S }

\* a variant that loses the first record of the iteration
get_all_skips_first(d, order) == [i \in 1..(Len(order) - 1) |-> d[order[i + 1]]]

\* get_all in the iteration order `order`
get_all(d, order) == [i \in 1..Len(order) |-> d[order[i]]]

\* ------------------------------------------------------- database.json
\* The file is missing, or holds text that is no JSON document of the
\* expected shape (empty or cut short by a failed write), or holds a
\* document {"forex_pairs": {key: record, ...}} with its members in order.
NoFile == [kind |-> "missing", entries |-> << >>]
BrokenFile == [kind |-> "malformed", entries |-> << >>]
JsonFile(entries) == [kind |-> "json", entries |-> entries]

\* a variant that writes one entry only
to_string_one_entry(d, order) ==
    [i \in 1..(IF Len(order) > 0 THEN 1 ELSE 0) |->
        [key |-> to_string_u64(order[i]), value |-> Serialized(d[order[i]])]]

\* serde_json::to_string(&self): one member per map entry, its key the
\* stringified id, in the map's iteration order
to_string(d, order) ==
    [i \in 1..Len(order) |->
        [key |-> to_string_u64(order[i]), value |-> Serialized(d[order[i]])]]

\* serde_json::from_str: every member must parse; a later member replaces
\* an earlier one with the same key.  Each member's record is read once.
Members(entries) ==
    [i \in 1..Len(entries) |-> ReadFrom(DeserializedForexPairs, entries[i].value)]

MembersOk(entries, read) ==
    \A i \in 1..Len(entries) :
        from_str_u64(entries[i].key) >= 0 /\ read[i].ok

RECURSIVE MembersMap(_, _)
MembersMap(entries, read) ==
    IF entries = << >> THEN Database_new
    ELSE LET n == Len(entries)
         IN  MapInsert(MembersMap(SubSeq(entries, 1, n - 1), read),
                       from_str_u64(entries[n].key),
                       read[n].value)

\* Ok(value) or Err
FromMembers(entries, read) ==
    [ok |-> MembersOk(entries, read), value |-> MembersMap(entries, read)]

from_str_result(entries) == FromMembers(entries, Members(entries))

from_str_ok(entries) == from_str_result(entries).ok

from_str(entries) == from_str_result(entries).value

\* save_to_file: the outcomes of File::create and write_all.  "ok": the
\* file holds the whole document; "create_failed": the file is as it was;
\* "write_failed": the file was truncated and the document is not in it.
SaveOutcomes == {"ok", "create_failed", "write_failed"}

\* a variant that opens the file for appending
save_to_file_appends(d, order, outcome, old) ==
    IF outcome = "ok" THEN JsonFile(old.entries \o to_string(d, order))
    ELSE IF outcome = "create_failed" THEN old
    ELSE BrokenFile

save_to_file(d, order, outcome, old) ==
    IF outcome = "ok" THEN JsonFile(to_string(d, order))
    ELSE IF outcome = "create_failed" THEN old
    ELSE BrokenFile

\* load_from_file: Ok(db) or Err; Err when the file cannot be read or is
\* no document of a database
FromFile(f, result) == [ok |-> f.kind = "json" /\ result.ok, value |-> result.value]

load_from_file_result(f) == FromFile(f, from_str_result(f.entries))

load_from_file_ok(f) == load_from_file_result(f).ok

load_from_file(f) == load_from_file_result(f).value

\* Result::unwrap_or_else(|_| Database::new())
unwrap_or_else(result) == IF result.ok THEN result.value ELSE Database_new

\* a variant that always starts with a new database
main_db_new(f) == Database_new

\* main, lines 106-109: the loaded database, or a new one on any error
main_db(f) == unwrap_or_else(load_from_file_result(f))

\* ------------------------------------------------------ requests, replies
Request(op, id, body) == [op |-> op, id |-> id, body |-> body]
NoRequest == Request("none", 0, << >>)

\* what the routes of main accept (lines 129-133); a body that does not
\* parse as a ForexPair never reaches a handler
Requests ==
    { Request(op, r.id, << r >>) : op \in {"create", "update"}, r \in ForexPair }
    \cup { Request(op, id, << >>) : op \in {"read", "delete"}, id \in Ids }
    \cup { Request("read_all", 0, << >>) }

\* the same routes, the bodies of create and update priced as RoundedPayloads
RoundedRequests ==
    { Request(op, r.id, << r >>) : op \in {"create", "update"}, r \in RoundedForexPair }
    \cup { Request(op, id, << >>) : op \in {"read", "delete"}, id \in Ids }
    \cup { Request("read_all", 0, << >>) }

Response(status, kind, body) == [status |-> status, kind |-> kind, body |-> body]
NoResponse == Response(0, "none", << >>)
\* HttpResponse::Ok().finish()
OkEmpty == Response(200, "empty", << >>)
\* HttpResponse::NotFound().finish()
NotFoundEmpty == Response(404, "empty", << >>)
\* HttpResponse::Ok().json(forex_pair)
OkJson(forex_pair) == Response(200, "object", << Serialized(forex_pair) >>)
\* HttpResponse::Ok().json(forex_pairs)
OkJsonArray(forex_pairs) ==
    Response(200, "array",
             [i \in 1..Len(forex_pairs) |-> Serialized(forex_pairs[i])])

\* ------------------------------------------------------------------ state
VARIABLES
    \* the program's state
    db,          \* AppState.db: the Database inside the Mutex
    file,        \* database.json
    owner,       \* the connection holding the MutexGuard, 0 when none does
    poisoned,    \* the Mutex's poison flag
    pc,          \* each connection's position in its handler
    req,         \* each connection's request while it is handled
    resp,        \* the response a handler has built and not yet returned
    served,      \* requests received so far
    \* history, written by the steps and read by the properties only
    hist,        \* per id, the last mutation applied since startup (or
                 \* the record startup loaded, while nothing mutated it)
    completed,   \* a mutating request has answered 200 since startup
    writeFailed, \* a save_to_file has failed since startup
    panics,      \* the handler that panicked last, if any
    raced        \* a mutation was applied while a request to mutate another
                 \* id was waiting for the lock

vars == << db, file, owner, poisoned, pc, req, resp, served, hist, completed,
           writeFailed, panics, raced >>

\* A mutation as remembered: its handler, its argument, and what came
\* before it: "absent" when the map had no entry for the id, "created" when
\* the entry had been put there by a create of another record, "present"
\* otherwise.
Mutation(op, body, d, id, h) ==
    << [op |-> op, body |-> body,
        prev |-> IF id \notin Keys(d) THEN "absent"
                 ELSE IF h # << >> /\ h[1].op = "create" /\ h[1].body # body
                      THEN "created"
                      ELSE "present"] >>

\* what startup remembers of a loaded database: its entries, as loaded
Loaded(d) ==
    [k \in Ids |-> IF k \in Keys(d)
                   THEN << [op |-> "loaded", body |-> << d[k] >>, prev |-> "absent"] >>
                   ELSE << >>]

Mutators == {"create", "update", "delete"}

\* first start (lines 106-113): no file yet, or one that does not parse
Init ==
    /\ file \in {NoFile, BrokenFile}
    /\ db = main_db(file)
    /\ owner = 0
    /\ poisoned = FALSE
    /\ pc = [p \in Procs |-> "idle"]
    /\ req = [p \in Procs |-> NoRequest]
    /\ resp = [p \in Procs |-> NoResponse]
    /\ served = 0
    /\ hist = Loaded(db)
    /\ raced = FALSE
    /\ completed = FALSE
    /\ writeFailed = FALSE
    /\ panics = "none"

\* --------------------------------------------------------- handler steps
\* the server hands connection p a request
Receive(p) ==
    /\ pc[p] = "idle"
    /\ served < MaxRequests
    /\ served' = served + 1
    /\ \E r \in Requests : req' = [req EXCEPT ![p] = r]
    /\ pc' = [pc EXCEPT ![p] = "start"]
    /\ UNCHANGED << db, file, owner, poisoned, resp, hist, completed,
                    writeFailed, panics, raced >>

\* the server hands connection p a request of RoundedRequests
ReceiveRounded(p) ==
    /\ pc[p] = "idle"
    /\ served < MaxRequests
    /\ served' = served + 1
    /\ \E r \in RoundedRequests : req' = [req EXCEPT ![p] = r]
    /\ pc' = [pc EXCEPT ![p] = "start"]
    /\ UNCHANGED << db, file, owner, poisoned, resp, hist, completed,
                    writeFailed, panics, raced >>

\* a variant that never waits
MutexNeverWaits(o) == TRUE

\* Mutex::lock returns once no other guard is alive
MutexFree(o) == o = 0

\* app_state.db.lock().unwrap(): blocks while another guard is alive; on a
\* poisoned mutex lock() is Err and unwrap panics, dropping the guard
lock_unwrap(p) ==
    /\ pc[p] = "start"
    /\ MutexFree(owner)
    /\ IF poisoned
       THEN /\ pc' = [pc EXCEPT ![p] = "idle"]
            /\ req' = [req EXCEPT ![p] = NoRequest]
            /\ panics' = req[p].op
            /\ owner' = owner
       ELSE /\ pc' = [pc EXCEPT ![p] = "locked"]
            /\ owner' = p
            /\ UNCHANGED << req, panics >>
    /\ UNCHANGED << db, file, poisoned, resp, served, hist, completed, writeFailed, raced >>

\* the in-memory operation of a mutating handler, under the guard
Mutate(p, newdb) ==
    /\ pc[p] = "locked"
    /\ owner = p
    /\ db' = newdb
    /\ hist' = [hist EXCEPT ![req[p].id] =
                    Mutation(req[p].op, req[p].body, db, req[p].id, @)]
    /\ raced' = (raced \/ \E q \in Procs \ {p} :
                              /\ pc[q] = "start"
                              /\ req[q].op \in Mutators
                              /\ req[q].id # req[p].id)
    /\ pc' = [pc EXCEPT ![p] = "mutated"]
    /\ UNCHANGED << file, owner, poisoned, req, resp, served, completed,
                    writeFailed, panics >>

\* a variant that answers a failed write with an error response
save_reports_error(p) ==
    /\ pc[p] = "mutated"
    /\ owner = p
    /\ \E order \in Orders(Keys(db)), outcome \in SaveOutcomes :
        /\ file' = save_to_file(db, order, outcome, file)
        /\ pc' = [pc EXCEPT ![p] = "replied"]
        /\ resp' = [resp EXCEPT ![p] =
                        IF outcome = "ok" THEN OkEmpty
                        ELSE Response(500, "empty", << >>)]
        /\ writeFailed' = (writeFailed \/ outcome # "ok")
        /\ UNCHANGED << owner, poisoned, req, panics >>
    /\ UNCHANGED << db, served, hist, completed, raced >>

\* db.save_to_file().unwrap() and HttpResponse::Ok().finish(): Err panics
\* with the guard alive, which poisons the mutex as the guard drops
save_unwrap(p) ==
    /\ pc[p] = "mutated"
    /\ owner = p
    /\ \E order \in Orders(Keys(db)), outcome \in SaveOutcomes :
        /\ file' = save_to_file(db, order, outcome, file)
        /\ IF outcome = "ok"
           THEN /\ pc' = [pc EXCEPT ![p] = "replied"]
                /\ resp' = [resp EXCEPT ![p] = OkEmpty]
                /\ UNCHANGED << owner, poisoned, req, writeFailed, panics >>
           ELSE /\ pc' = [pc EXCEPT ![p] = "idle"]
                /\ req' = [req EXCEPT ![p] = NoRequest]
                /\ resp' = resp
                /\ owner' = 0
                /\ poisoned' = TRUE
                /\ writeFailed' = TRUE
                /\ panics' = req[p].op
    /\ UNCHANGED << db, served, hist, completed, raced >>

\* a variant that saves the database after reading it
Reply_and_save(p, response) ==
    /\ pc[p] = "locked"
    /\ owner = p
    /\ resp' = [resp EXCEPT ![p] = response]
    /\ pc' = [pc EXCEPT ![p] = "replied"]
    /\ \E order \in Orders(Keys(db)) : file' = save_to_file(db, order, "ok", file)
    /\ UNCHANGED << db, owner, poisoned, req, served, hist, completed,
                    writeFailed, panics, raced >>

\* the body of a reading handler: the response is built from the map
\* under the guard
Reply(p, response) ==
    /\ pc[p] = "locked"
    /\ owner = p
    /\ resp' = [resp EXCEPT ![p] = response]
    /\ pc' = [pc EXCEPT ![p] = "replied"]
    /\ UNCHANGED << db, file, owner, poisoned, req, served, hist, completed,
                    writeFailed, panics, raced >>

\* a variant that returns without dropping the guard
return_keeps_guard(p) ==
    /\ pc[p] = "replied"
    /\ owner = p
    /\ owner' = owner
    /\ pc' = [pc EXCEPT ![p] = "idle"]
    /\ req' = [req EXCEPT ![p] = NoRequest]
    /\ resp' = [resp EXCEPT ![p] = NoResponse]
    /\ completed' = (completed \/ req[p].op \in Mutators)
    /\ UNCHANGED << db, file, poisoned, served, hist, writeFailed, panics, raced >>

\* the handler returns: the guard drops and the response goes out
return(p) ==
    /\ pc[p] = "replied"
    /\ owner = p
    /\ owner' = 0
    /\ pc' = [pc EXCEPT ![p] = "idle"]
    /\ req' = [req EXCEPT ![p] = NoRequest]
    /\ resp' = [resp EXCEPT ![p] = NoResponse]
    /\ completed' = (completed \/ req[p].op \in Mutators)
    /\ UNCHANGED << db, file, poisoned, served, hist, writeFailed, panics, raced >>

\* ---------------------------------------------------------------- handlers
create_forex_pair(p) ==
    /\ req[p].op = "create"
    /\ \/ lock_unwrap(p)
       \/ Mutate(p, insert(db, req[p].body[1]))
       \/ save_unwrap(p)
       \/ return(p)

read_forex_pair(p) ==
    /\ req[p].op = "read"
    /\ \/ lock_unwrap(p)
       \/ LET found == get(db, req[p].id)
          IN  Reply(p, IF found # << >> THEN OkJson(found[1]) ELSE NotFoundEmpty)
       \/ return(p)

read_all_forex_pairs(p) ==
    /\ req[p].op = "read_all"
    /\ \/ lock_unwrap(p)
       \/ \E order \in Orders(Keys(db)) : Reply(p, OkJsonArray(get_all(db, order)))
       \/ return(p)

update_forex_pair(p) ==
    /\ req[p].op = "update"
    /\ \/ lock_unwrap(p)
       \/ Mutate(p, update(db, req[p].body[1]))
       \/ save_unwrap(p)
       \/ return(p)

delete_forex_pair(p) ==
    /\ req[p].op = "delete"
    /\ \/ lock_unwrap(p)
       \/ Mutate(p, delete(db, req[p].id))
       \/ save_unwrap(p)
       \/ return(p)

\* the process is stopped and started again: main runs on the file as it is
main ==
    /\ db' = main_db(file)
    /\ owner' = 0
    /\ poisoned' = FALSE
    /\ pc' = [p \in Procs |-> "idle"]
    /\ req' = [p \in Procs |-> NoRequest]
    /\ resp' = [p \in Procs |-> NoResponse]
    /\ hist' = Loaded(db')
    /\ raced' = FALSE
    /\ completed' = FALSE
    /\ writeFailed' = FALSE
    /\ panics' = "none"
    /\ UNCHANGED << file, served >>

Next ==
    \/ \E p \in Procs : Receive(p)
    \/ \E p \in Procs : create_forex_pair(p)
    \/ \E p \in Procs : read_forex_pair(p)
    \/ \E p \in Procs : read_all_forex_pairs(p)
    \/ \E p \in Procs : update_forex_pair(p)
    \/ \E p \in Procs : delete_forex_pair(p)
    \/ main

Spec == Init /\ [][Next]_vars

\* the service when the prices it is sent are those of RoundedPayloads
NextRounded ==
    \/ \E p \in Procs : ReceiveRounded(p)
    \/ \E p \in Procs : create_forex_pair(p)
    \/ \E p \in Procs : read_forex_pair(p)
    \/ \E p \in Procs : read_all_forex_pairs(p)
    \/ \E p \in Procs : update_forex_pair(p)
    \/ \E p \in Procs : delete_forex_pair(p)
    \/ main

SpecRounded == Init /\ [][NextRounded]_vars

\* the handler that runs connection p's request
Handler(p) ==
    \/ create_forex_pair(p)
    \/ read_forex_pair(p)
    \/ read_all_forex_pairs(p)
    \/ update_forex_pair(p)
    \/ delete_forex_pair(p)

\* a worker thread that can run keeps running, and Mutex::lock, which is
\* free again and again, is in the end granted to each thread waiting
FairSpec ==
    /\ Spec
    /\ \A p \in Procs : WF_vars(Handler(p))
    /\ \A p \in Procs : SF_vars(lock_unwrap(p))

\* ------------------------------------------------------------ properties
\* connection p's handler `op` has built its response
Replied(p, op) == pc[p] = "replied" /\ req[p].op = op

\* the record a 200 response to Read-one carries
BodyRecord(r) == Deserialized(r.body[1])

\* the records a 200 response to Read-all carries
BodyRecords(r) == { Deserialized(r.body[i]) : i \in 1..Len(r.body) }

\* the last thing that happened to id k since startup is mutation `op`
LastWas(k, op) == hist[k] # << >> /\ hist[k][1].op = op

\* Read-one answers 200 with exactly the record r
AnswersRecord(p, r) ==
    /\ resp[p].status = 200
    /\ resp[p].kind = "object"
    /\ BodyRecord(resp[p]) = r

\* C1: a Read-one of an id whose last mutation is a completed Create(r)
\* answers 200 with a record equal to r in all fields, also when the
\* Create replaced a record.
C1_ReadAfterCreate ==
    \A p \in Procs :
        (Replied(p, "read") /\ completed /\ LastWas(req[p].id, "create"))
            => AnswersRecord(p, hist[req[p].id][1].body[1])

\* a Read-one has answered after a Create that replaced a record
C1_Witness ==
    \E p \in Procs :
        /\ Replied(p, "read")
        /\ LastWas(req[p].id, "create")
        /\ hist[req[p].id][1].prev # "absent"
        /\ resp[p].status = 200

\* C2: last write wins: a Read-one of an id whose last mutation is a
\* completed Update(r2) that followed a Create(r1), r1 # r2, answers r2.
C2_LastWriteWins ==
    \A p \in Procs :
        (/\ Replied(p, "read")
         /\ LastWas(req[p].id, "update")
         /\ hist[req[p].id][1].prev = "created")
            => AnswersRecord(p, hist[req[p].id][1].body[1])

\* a Read-one has answered after Create(r1) and Update(r2), r1 # r2
C2_Witness ==
    \E p \in Procs :
        /\ Replied(p, "read")
        /\ LastWas(req[p].id, "update")
        /\ hist[req[p].id][1].prev = "created"
        /\ resp[p].status = 200

\* C3: a Read-one of an id whose last mutation is a Delete answers 404
\* with an empty body, whether or not the Delete found a record.
C3_ReadAfterDelete ==
    \A p \in Procs :
        (Replied(p, "read") /\ LastWas(req[p].id, "delete"))
            => resp[p] = NotFoundEmpty

\* a Read-one has answered after a Delete that removed a record
C3_Witness ==
    \E p \in Procs :
        /\ Replied(p, "read")
        /\ LastWas(req[p].id, "delete")
        /\ hist[req[p].id][1].prev # "absent"
        /\ resp[p].status = 404

\* C4: Read-all answers 200 with, as a set, exactly one record for each id
\* whose last mutation is a Create or Update (or that startup loaded and
\* nothing mutated since), carrying that mutation's fields, and no record
\* for an id deleted last or never present.
C4_ReadAllIsTheStore ==
    \A p \in Procs :
        Replied(p, "read_all") =>
            /\ resp[p].status = 200
            /\ resp[p].kind = "array"
            /\ Len(resp[p].body) = Cardinality(BodyRecords(resp[p]))
            /\ \A r \in BodyRecords(resp[p]) : r.id \in Ids
            /\ \A k \in Ids :
                { r \in BodyRecords(resp[p]) : r.id = k } =
                    IF hist[k] # << >> /\ hist[k][1].op # "delete"
                    THEN { hist[k][1].body[1] }
                    ELSE {}

\* a Read-all has answered one record after a Delete of one id and a
\* Create or Update of another
C4_Witness ==
    \E p \in Procs :
        /\ Replied(p, "read_all")
        /\ \E k \in Ids : LastWas(k, "delete")
        /\ \E k \in Ids : LastWas(k, "create") \/ LastWas(k, "update")
        /\ Len(resp[p].body) = 1

\* database.json holds exactly the in-memory collection
FileHoldsStore ==
    /\ file.kind = "json"
    /\ load_from_file_ok(file)
    /\ load_from_file(file) = db
    /\ Len(file.entries) = Cardinality(Keys(db))

\* C5: when no request holds the lock, a mutating request has answered 200
\* and no write has failed, the file holds the whole collection; and a
\* mutating handler has rewritten the file by the time it has its response.
C5_FileFollowsMemory ==
    /\ (owner = 0 /\ completed /\ ~writeFailed) => FileHoldsStore
    /\ \A p \in Procs :
        (pc[p] = "replied" /\ req[p].op \in Mutators) => FileHoldsStore

\* a Delete of an absent id has completed on a store that is not empty
C5_Witness ==
    /\ owner = 0
    /\ completed
    /\ ~writeFailed
    /\ Keys(db) # {}
    /\ \E k \in Ids : LastWas(k, "delete") /\ hist[k][1].prev = "absent"

\* C6: once concurrent mutations of different ids have all completed, the
\* file holds, for every id, what that id's last mutation in lock order
\* left, and nothing twice.
C6_ConcurrentWritesSerialize ==
    ((\A p \in Procs : pc[p] = "idle") /\ raced /\ ~writeFailed) =>
        /\ file.kind = "json"
        /\ load_from_file_ok(file)
        /\ Len(file.entries) = Cardinality(Keys(load_from_file(file)))
        /\ \A k \in Ids :
            IF hist[k] # << >> /\ hist[k][1].op # "delete"
            THEN /\ k \in Keys(load_from_file(file))
                 /\ load_from_file(file)[k] = hist[k][1].body[1]
            ELSE k \notin Keys(load_from_file(file))

\* two mutations of different ids, one waiting for the other's lock, have
\* both completed
C6_Witness ==
    /\ \A p \in Procs : pc[p] = "idle"
    /\ raced
    /\ ~writeFailed
    /\ \A k \in Ids : hist[k] # << >> /\ hist[k][1].op \in Mutators

\* connection p is between acquiring and releasing the lock
InGuard(p) == pc[p] \in {"locked", "mutated", "replied"}

MutexInv ==
    /\ \A p, q \in Procs : (InGuard(p) /\ InGuard(q)) => p = q
    /\ \A p \in Procs : InGuard(p) <=> owner = p
    /\ owner \in Procs \cup {0}

\* a step that reads or changes the collection or writes the file is taken
\* by the lock's holder while every other connection stands still outside
\* the lock; a handler that has mutated keeps the lock until its write
StoreTouchedUnderLock ==
    \/ main
    \/ /\ (db' # db \/ file' # file \/ resp' # resp) =>
            /\ owner # 0
            /\ InGuard(owner)
            /\ \A q \in Procs \ {owner} :
                    pc[q] \in {"idle", "start"} /\ pc'[q] = pc[q]
       /\ \A p \in Procs :
            (pc[p] = "mutated" /\ pc'[p] = "mutated") => owner' = p

\* C7: at most one handler is between acquiring and releasing the lock;
\* every read, mutation and file write happens under the lock, which is
\* kept from the mutation to the write; no reader answers meanwhile.
C7_MutualExclusion == [] MutexInv /\ [][StoreTouchedUnderLock]_vars

\* a reader waits for the lock while a handler is between its mutation and
\* its file write
C7_Witness ==
    \E p, q \in Procs :
        /\ pc[p] = "mutated"
        /\ pc[q] = "start"
        /\ req[q].op \in {"read", "read_all"}

\* saving d and loading the file again gives d, in whatever order the map
\* is written
RoundTrip(d) ==
    \A order \in Orders(Keys(d)) :
        LET f == save_to_file(d, order, "ok", file)
        IN  load_from_file_ok(f) /\ load_from_file(f) = d

\* C8: save_to_file then load_from_file gives back every reachable store;
\* and after a completed mutating request (no write failed, no handler
\* between its mutation and its write) the collection main would start
\* with, were the process restarted, is the one in memory.
C8_PersistenceRoundTrip ==
    /\ RoundTrip(db)
    /\ (completed /\ ~writeFailed /\ \A p \in Procs : pc[p] # "mutated")
            => main_db(file) = db

\* C9: an Update of an absent id answers 200 with an empty body and
\* creates the record: a Read-one of the id then answers 200 with it.
C9_UpdateCreates ==
    \A p \in Procs :
        /\ Replied(p, "update") => resp[p] = OkEmpty
        /\ (/\ Replied(p, "read")
            /\ LastWas(req[p].id, "update")
            /\ hist[req[p].id][1].prev = "absent")
                => AnswersRecord(p, hist[req[p].id][1].body[1])

\* a Read-one has answered after an Update of an absent id
C9_Witness ==
    \E p \in Procs :
        /\ Replied(p, "read")
        /\ LastWas(req[p].id, "update")
        /\ hist[req[p].id][1].prev = "absent"
        /\ resp[p].status = 200

\* C10: Read-all never fails: no Read-all handler panics, whatever came
\* before it (as stated; the code panics on the poisoned mutex).
C10_ReadAllNeverFails == panics # "read_all"

\* connection p's mutating handler takes its in-memory step
MutationStep(p) == pc[p] = "locked" /\ pc'[p] = "mutated"

\* C11: a Delete of an absent id leaves the in-memory collection exactly
\* as it was, and answers 200 with an empty body.
C11_DeleteAbsentIsNoOp ==
    /\ [] (\A p \in Procs : Replied(p, "delete") => resp[p] = OkEmpty)
    /\ [][\A p \in Procs :
            (MutationStep(p) /\ req[p].op = "delete" /\ req[p].id \notin Keys(db))
                => db' = db]_vars

\* a Delete of an absent id has its response, the store holding a record
C11_Witness ==
    \E p \in Procs :
        /\ Replied(p, "delete")
        /\ hist[req[p].id][1].prev = "absent"
        /\ Keys(db) # {}
        /\ resp[p].status = 200

\* ------------------------------------------- startup from any file at all
\* documents the service did not write but load_from_file accepts: a
\* member whose key is not its record's id, and a key given twice
ForeignFiles ==
    LET member(k, i, v) ==
            [key |-> to_string_u64(k),
             value |-> Serialized([id |-> i, pair |-> v.pair, price |-> v.price])]
        v == CHOOSE x \in Payloads : x.price.digits = <<"9">>
        w == CHOOSE x \in Payloads : x.price.digits = <<"1">>
    IN  { JsonFile(<< member(0, 10, v), member(10, 10, w) >>),
          JsonFile(<< member(0, 0, v), member(0, 0, w) >>) }

\* main with whatever database.json holds when the process first starts
InitAnyFile ==
    /\ file \in {NoFile, BrokenFile} \cup ForeignFiles
    /\ db = main_db(file)
    /\ owner = 0
    /\ poisoned = FALSE
    /\ pc = [p \in Procs |-> "idle"]
    /\ req = [p \in Procs |-> NoRequest]
    /\ resp = [p \in Procs |-> NoResponse]
    /\ served = 0
    /\ hist = Loaded(db)
    /\ raced = FALSE
    /\ completed = FALSE
    /\ writeFailed = FALSE
    /\ panics = "none"

SpecAnyFile == InitAnyFile /\ [][Next]_vars

\* C12: no two records of the collection have the same id field, and
\* Read-all never returns two records with equal id, whatever accepted
\* file the process started from.
C12_OneRecordPerId ==
    /\ \A j, k \in Keys(db) : db[j].id = db[k].id => j = k
    /\ \A p \in Procs :
        Replied(p, "read_all") =>
            \A m, n \in 1..Len(resp[p].body) :
                resp[p].body[m].id = resp[p].body[n].id => m = n

\* the collection holds, for every id, what its last mutation since
\* startup left
MemoryHoldsMutations ==
    \A k \in Ids :
        IF hist[k] # << >> /\ hist[k][1].op # "delete"
        THEN k \in Keys(db) /\ db[k] = hist[k][1].body[1]
        ELSE k \notin Keys(db)

\* C13: after a persistence write has failed, the collection still holds
\* that request's mutation, and the request has no response: its handler
\* panicked, and no connection holds a response of any kind.
C13_FailedWriteNotRolledBack ==
    writeFailed =>
        /\ MemoryHoldsMutations
        /\ panics \in Mutators \cup {"read", "read_all"}
        /\ \A p \in Procs : resp[p] = NoResponse /\ pc[p] \in {"idle", "start"}

\* the write of a Create has failed: the record is in memory and not in
\* the file
C13_Witness ==
    /\ writeFailed
    /\ panics = "create"
    /\ \E k \in Ids :
        /\ LastWas(k, "create")
        /\ db[k] = hist[k][1].body[1]
        /\ k \notin Keys(main_db(file))

\* C14: after a failed write, a later Create, Update or Delete in the same
\* process goes on to its own write, and once that write has succeeded the
\* file equals the whole in-memory collection, the mutation whose write
\* had failed included.
C14_NextWriteRepairsFile ==
    /\ [] (\A p \in Procs :
            (pc[p] = "replied" /\ req[p].op \in Mutators) =>
                FileHoldsStore /\ MemoryHoldsMutations)
    /\ [][\A p \in Procs :
            (/\ writeFailed /\ writeFailed'
             /\ pc[p] = "start" /\ req[p].op \in Mutators
             /\ pc'[p] # "start")
                => pc'[p] = "locked"]_vars

\* no Create, Update or Delete has touched the collection since startup
NoMutationYet ==
    \A k \in Ids : hist[k] = << >> \/ hist[k][1].op = "loaded"

\* C15: startup always yields a collection: the records of the file when
\* load_from_file accepts it, the empty collection when the file is
\* missing or malformed; and the file changes only by the write of a
\* mutating handler.
C15_StartupNeverFails ==
    /\ [] (NoMutationYet =>
            IF file.kind = "json" /\ from_str_ok(file.entries)
            THEN db = from_str(file.entries)
            ELSE db = Database_new)
    /\ [][file' # file =>
            \E p \in Procs :
                pc[p] = "mutated" /\ req[p].op \in Mutators /\ pc'[p] # "mutated"]_vars

\* the process has started from a foreign file that load_from_file
\* accepts, and a request is served from what it loaded
C15_Witness ==
    /\ NoMutationYet
    /\ file \in ForeignFiles
    /\ Keys(db) = {0, 10}
    /\ \E p \in Procs : Replied(p, "read") /\ resp[p].status = 200


\* C16: Create and Update are the same operation: from every reachable
\* collection and for every record, insert and update give the same
\* collection and so the same file; both handlers leave the record under
\* its id, with the file rewritten, and answer 200 with an empty body,
\* whether or not the id was present.
C16_CreateIsUpdate ==
    /\ \A r \in ForexPair :
        /\ insert(db, r) = update(db, r)
        /\ \A order \in Orders(Keys(update(db, r))) :
            save_to_file(insert(db, r), order, "ok", file)
                = save_to_file(update(db, r), order, "ok", file)
    /\ \A p \in Procs :
        (Replied(p, "create") \/ Replied(p, "update")) =>
            /\ resp[p] = OkEmpty
            /\ req[p].id \in Keys(db)
            /\ db[req[p].id] = req[p].body[1]
            /\ FileHoldsStore

\* a Create of a present id and an Update of an absent id: one has its
\* response, the other has completed before it
C16_Witness ==
    \E p \in Procs, k \in Ids :
        /\ k # req[p].id
        /\ \/ /\ Replied(p, "create")
              /\ hist[req[p].id][1].prev # "absent"
              /\ LastWas(k, "update") /\ hist[k][1].prev = "absent"
           \/ /\ Replied(p, "update")
              /\ hist[req[p].id][1].prev = "absent"
              /\ LastWas(k, "create") /\ hist[k][1].prev # "absent"

\* C17: no operation blocks: the holder of the lock can always take its
\* next step and in the end releases the lock, some handler can step
\* whenever a request is in flight, and under fair scheduling every
\* request in flight, waiting at lock() or holding the guard, comes to the
\* end of its handler, the guard dropped.
C17_NoOperationBlocks ==
    /\ [] (\A p \in Procs : InGuard(p) => ENABLED Handler(p))
    /\ [] ((\E p \in Procs : pc[p] # "idle") => ENABLED (\E p \in Procs : Handler(p)))
    /\ \A p \in Procs : (pc[p] # "idle") ~> (pc[p] = "idle")

\* a request waits at lock() while another connection's mutating handler
\* holds the guard, its file write still to come
C17_Witness ==
    \E p, q \in Procs :
        /\ pc[p] = "start"
        /\ pc[q] = "mutated"
        /\ owner = q

\* C18: from an empty store or a file the service wrote, every record is
\* stored under a key equal to its own id, and a Read-one of k that
\* answers 200 returns a record whose id is k.
C18_KeyIsId ==
    /\ \A k \in Keys(db) : db[k].id = k
    /\ \A p \in Procs :
        (Replied(p, "read") /\ resp[p].status = 200) =>
            /\ resp[p].kind = "object"
            /\ BodyRecord(resp[p]).id = req[p].id

\* after a restart, a Read-one answers 200 from a record loaded from the
\* file the service wrote, while another record was put in since
C18_Witness ==
    \E p \in Procs, k \in Ids :
        /\ Replied(p, "read")
        /\ resp[p].status = 200
        /\ LastWas(req[p].id, "loaded")
        /\ k # req[p].id
        /\ hist[k] # << >> /\ hist[k][1].op \in {"create", "update"}

\* C19: the in-memory step of a Create, Update or Delete addressed to id k
\* leaves every entry of another id as it was: none added, none removed,
\* none changed, whether the id is the entry's key or the id field of its
\* record.
C19_OtherIdsUntouched ==
    [][\A p \in Procs :
        MutationStep(p) =>
            /\ Keys(db') \ {req[p].id} = Keys(db) \ {req[p].id}
            /\ \A k \in Keys(db) \ {req[p].id} : db'[k] = db[k]
            /\ \A k \in Keys(db) :
                db[k].id # req[p].id => (k \in Keys(db') /\ db'[k] = db[k])]_vars

\* connection p's reading handler takes a step: lock, build the response,
\* or return
ReadStep(p) ==
    /\ req[p].op \in {"read", "read_all"}
    /\ pc[p] # "idle"
    /\ pc'[p] # pc[p]
    /\ ~main

\* C20: Read-one and Read-all are pure: no step of a reading handler
\* changes the in-memory collection or the file, and a reading handler
\* answers 200 or 404.
C20_ReadsArePure ==
    /\ [] (\A p \in Procs :
            (Replied(p, "read") \/ Replied(p, "read_all")) =>
                resp[p].status \in {200, 404})
    /\ [][\A p \in Procs : ReadStep(p) => (db' = db /\ file' = file)]_vars

\* a Read-one answers 404 on a store that holds another record, while a
\* Read-all waits for the lock
C20_Witness ==
    \E p \in Procs :
        /\ Replied(p, "read")
        /\ resp[p].status = 404
        /\ Keys(db) # {}
        /\ \E q \in Procs \ {p} : pc[q] = "start" /\ req[q].op = "read_all"

=============================================================================
